---- MODULE Spec2Model ----
(***************************************************************************)
(* Model of ResearchPaperRepository (src/resarch.py): the papers table,    *)
(* the external-content FTS5 index papers_fts with its triggers, the       *)
(* content-hash deduplication of add_paper, clear_test_data,               *)
(* search_papers, get_all_categories, close and a new repository on        *)
(* storage that is already set up.  Spec and SearchSpec are behaviours of  *)
(* an open repository; LifeSpec adds close and the new repository.         *)
(*                                                                         *)
(* Text values are sequences of one-character strings so that LIKE, the    *)
(* FTS5 tokenizer and strftime can be computed.  upload_date is not        *)
(* modelled: it is written once from the wall clock and never read by any  *)
(* operation.                                                              *)
(***************************************************************************)
EXTENDS Integers, Sequences, FiniteSets, TLC

\* ------------------------------------------------------------------ bounds
\* largest rowid the model lets AUTOINCREMENT hand out
MaxId == 2

\* ------------------------------------------------------------- characters
Upper == <<"A","B","C","D","E","F","G","H","I","J","K","L","M",
           "N","O","P","Q","R","S","T","U","V","W","X","Y","Z">>

LowerLetters == <<"a","b","c","d","e","f","g","h","i","j","k","l","m",
                  "n","o","p","q","r","s","t","u","v","w","x","y","z">>

Digits == <<"0","1","2","3","4","5","6","7","8","9">>

Range(s) == { s[i] : i \in DOMAIN s }

UpperChars == Range(Upper)

DigitChars == Range(Digits)

AlnumChars == Range(Upper) \cup Range(LowerLetters) \cup Range(Digits)

\* ASCII case folding, as LIKE and the unicode61 tokenizer apply it
FoldMap == [c \in UpperChars |->
               LowerLetters[CHOOSE i \in DOMAIN Upper : Upper[i] = c]]

Lower(c) == IF c \in UpperChars THEN FoldMap[c] ELSE c

LowerText(s) == [i \in DOMAIN s |-> Lower(s[i])]

IsDigit(c) == c \in DigitChars

IsAlnum(c) == c \in AlnumChars

DigitMap == [c \in DigitChars |-> (CHOOSE i \in DOMAIN Digits : Digits[i] = c) - 1]

DigitVal(c) == DigitMap[c]

\* SQL NULL / Python None for a text column: a value no text is equal to
NULL == <<"NULL">>

\* Python None for file_path / file_hash
None == "None"

\* ------------------------------------------------------------------ texts
W_Deep == <<"D","e","e","p">>

W_deep == <<"d","e","e","p">>

W_Learning == <<"L","e","a","r","n","i","n","g">>

W_learning == <<"l","e","a","r","n","i","n","g">>

W_for == <<"f","o","r">>

W_nets == <<"n","e","t","s">>

W_Ann == <<"A","n","n">>

W_ann == <<"a","n","n">>

W_Bob == <<"B","o","b">>

W_bob == <<"b","o","b">>

SP == <<" ">>

\* the literal of the LIKE pattern in clear_test_data, without the final %
TestTitlePrefix == W_Deep \o SP \o W_Learning \o SP \o W_for

Title_DeepLearningForX == TestTitlePrefix \o SP \o <<"X">>

Title_deepLearningForY == W_deep \o SP \o W_learning \o SP \o W_for \o SP \o <<"y">>

Title_DeepLearning == W_Deep \o W_Learning

Title_NetsForBob == <<"N","e","t","s">> \o SP \o W_for \o SP \o W_Bob

Cat_ML == <<"M","L">>

Cat_Bio == <<"B","i","o">>

Date_2023_05_15 == <<"2","0","2","3","-","0","5","-","1","5">>

Date_2022_02_30 == <<"2","0","2","2","-","0","2","-","3","0">>

Date_2023_13_01 == <<"2","0","2","3","-","1","3","-","0","1">>

Year_2023 == <<"2","0","2","3">>

\* the metadata arguments of add_paper the model draws from
Metas ==
    { [title |-> Title_DeepLearningForX, authors |-> W_Ann \o <<",">> \o SP \o W_Bob,
       abstract |-> NULL, publication_date |-> Date_2023_05_15,
       category |-> Cat_ML, keywords |-> W_nets],
      [title |-> Title_deepLearningForY, authors |-> W_Bob,
       abstract |-> W_Deep \o SP \o W_nets, publication_date |-> Date_2022_02_30,
       category |-> Cat_Bio, keywords |-> NULL],
      [title |-> Title_DeepLearning, authors |-> W_Ann,
       abstract |-> NULL, publication_date |-> Date_2023_13_01,
       category |-> NULL, keywords |-> NULL],
      [title |-> Title_NetsForBob, authors |-> W_ann,
       abstract |-> NULL, publication_date |-> NULL,
       category |-> Cat_ML, keywords |-> W_deep] }

\* ------------------------------------------------------------- filesystem
SamplePath == "sample_paper.pdf"

Paths == { SamplePath, "a.pdf" }

Missing == "<missing>"

\* file contents a user may have put on disk before the run
UserContents == { "ABC" }

\* what FPDF.output writes: the document embeds its creation time, so two
\* generated samples need not have the same bytes
SampleContents == { "%PDF-t1", "%PDF-t2" }

\* _calculate_file_hash: SHA-256 hex digest of the file's bytes (first 8
\* hex digits of the real digests)
sha256(bytes) ==
    CASE bytes = "ABC" -> "b5d4045c"
      [] bytes = "%PDF-t1" -> "24fc0564"
      [] bytes = "%PDF-t2" -> "c6abffaa"

\* ------------------------------------------------------ SQL text operators
\* Python truthiness of an optional text argument: None and '' are falsy
Given(x) == x # NULL /\ x # <<>>

\* text LIKE '%' || q || '%'  (ASCII case-insensitive; NULL never matches;
\* the model's arguments hold no LIKE wildcard)
LikeContains(text, q) ==
    /\ text # NULL
    /\ \E i \in 1..(Len(text) - Len(q) + 1) :
          LowerText(SubSeq(text, i, i + Len(q) - 1)) = LowerText(q)

\* text LIKE prefix || '%'
LikePrefix(text, prefix) ==
    /\ text # NULL
    /\ Len(text) >= Len(prefix)
    /\ LowerText(SubSeq(text, 1, Len(prefix))) = LowerText(prefix)

\* strftime("%Y", d) for the YYYY-MM-DD form: NULL unless the month is in
\* 01..12 and the day in 01..31
strftimeY(d) ==
    IF /\ d # NULL
       /\ Len(d) = 10
       /\ \A i \in {1, 2, 3, 4, 6, 7, 9, 10} : IsDigit(d[i])
       /\ d[5] = "-" /\ d[8] = "-"
       /\ (10 * DigitVal(d[6]) + DigitVal(d[7])) \in 1..12
       /\ (10 * DigitVal(d[9]) + DigitVal(d[10])) \in 1..31
    THEN SubSeq(d, 1, 4)
    ELSE NULL

\* the unicode61 tokenizer of fts5: the maximal alphanumeric runs, folded.
\* Scan(text, i, cur) reads text from position i with the run cur open
RECURSIVE Scan(_, _, _)
Scan(text, i, cur) ==
    IF i > Len(text) THEN (IF cur = <<>> THEN {} ELSE {cur})
    ELSE IF IsAlnum(text[i]) THEN Scan(text, i + 1, Append(cur, Lower(text[i])))
    ELSE (IF cur = <<>> THEN {} ELSE {cur}) \cup Scan(text, i + 1, <<>>)

Tokens(text) == IF text = NULL THEN {} ELSE Scan(text, 1, <<>>)

\* papers_fts MATCH q for a query of barewords: every word of the query is
\* a token of some indexed column of the entry
FtsMatch(entry, q) ==
    \A t \in Tokens(q) :
        t \in Tokens(entry.title) \cup Tokens(entry.authors)
              \cup Tokens(entry.abstract) \cup Tokens(entry.keywords)

\* ------------------------------------------------------------------ state
VARIABLES
    fts5,        \* whether CREATE VIRTUAL TABLE ... USING fts5 succeeded
    papers,      \* rows of table papers
    papers_fts,  \* entries of the full-text index papers_fts
    seq,         \* sqlite_sequence of papers: the largest id handed out
    files,       \* the filesystem: path -> bytes or Missing
    conn,        \* the sqlite3 connection of the repository: open or closed
    call,        \* the last call made on the repository
    ret          \* what that call returned or raised

vars == <<fts5, papers, papers_fts, seq, files, conn, call, ret>>

\* ---------------------------------------------------------------- schema
\* the table without UNIQUE on file_path
ConstraintFailed_no_unique_path(tbl, row) ==
    \/ row.title = NULL
    \/ row.authors = NULL
    \/ row.file_hash # None /\ \E p \in tbl : p.file_hash = row.file_hash

\* UNIQUE columns in which two NULLs conflict
ConstraintFailed_nulls_conflict(tbl, row) ==
    \/ row.title = NULL
    \/ row.authors = NULL
    \/ \E p \in tbl : p.file_path = row.file_path
    \/ \E p \in tbl : p.file_hash = row.file_hash

\* CREATE TABLE papers: NOT NULL on title and authors, UNIQUE on file_path
\* and on file_hash (NULLs never conflict)
ConstraintFailed(tbl, row) ==
    \/ row.title = NULL
    \/ row.authors = NULL
    \/ row.file_path # None /\ \E p \in tbl : p.file_path = row.file_path
    \/ row.file_hash # None /\ \E p \in tbl : p.file_hash = row.file_hash

\* the projection of a row that the triggers write into papers_fts
FtsEntry(row) ==
    [rowid |-> row.id, title |-> row.title, authors |-> row.authors,
     abstract |-> row.abstract, keywords |-> row.keywords]

\* trigger papers_ai: AFTER INSERT ON papers
papers_ai(idx, new) == idx \cup { FtsEntry(new) }

\* DELETE FROM papers_fts WHERE rowid = rid.  papers_fts is an external
\* content table (content='papers'): the row to delete is looked up in the
\* content table, and nothing is deleted when papers no longer has it
FtsDeleteRowid(idx, content, rid) ==
    IF \E p \in content : p.id = rid
    THEN { e \in idx : e.rowid # rid }
    ELSE idx

\* trigger papers_ad: AFTER DELETE ON papers; tbl is papers once the row
\* old is gone
papers_ad(idx, tbl, old) == FtsDeleteRowid(idx, tbl, old.id)

\* DELETE FROM papers of the rows in victims, row by row in rowid order,
\* firing papers_ad after each row when the trigger exists
RECURSIVE DeleteRows(_, _, _)
DeleteRows(tbl, idx, victims) ==
    IF victims = {} THEN [papers |-> tbl, fts |-> idx]
    ELSE LET old == CHOOSE r \in victims : \A s \in victims : r.id <= s.id
             tbl1 == tbl \ {old}
             idx1 == IF fts5 THEN papers_ad(idx, tbl1, old) ELSE idx
         IN DeleteRows(tbl1, idx1, victims \ {old})

\* _initialize_database on fresh storage; the engine may or may not have
\* fts5, and the files on disk are whatever the user put there
Init ==
    /\ fts5 \in BOOLEAN
    /\ papers = {}
    /\ papers_fts = {}
    /\ seq = 0
    /\ files \in [Paths -> UserContents \cup {Missing}]
    /\ conn = "open"
    /\ call = [op |-> "__init__"]
    /\ ret = [kind |-> "ok"]

\* ------------------------------------------------------------- add_paper
\* SELECT id FROM papers WHERE file_path = ?  (looks in the wrong column)
HashLookup_wrong_column(tbl, file_hash) == { p \in tbl : p.file_path = file_hash }

\* SELECT id FROM papers WHERE file_hash = ?
HashLookup(tbl, file_hash) == { p \in tbl : p.file_hash = file_hash }

\* the flag read the wrong way round
FileNotFound_inverted_flag(fs, file_path, create_sample_if_missing) ==
    /\ file_path # None
    /\ fs[file_path] = Missing
    /\ create_sample_if_missing

\* the path is given, os.path.exists is false and no sample is to be made
FileNotFound(fs, file_path, create_sample_if_missing) ==
    /\ file_path # None
    /\ fs[file_path] = Missing
    /\ ~create_sample_if_missing

\* INTEGER PRIMARY KEY without AUTOINCREMENT: one more than the largest
\* rowid in the table
NewRow_max_rowid(m, file_path, file_hash) ==
    [id |-> IF papers = {} THEN 1
            ELSE 1 + (CHOOSE i \in { p.id : p \in papers } :
                         \A p \in papers : p.id <= i),
     title |-> m.title, authors |-> m.authors,
     abstract |-> m.abstract, publication_date |-> m.publication_date,
     category |-> m.category, file_path |-> file_path,
     file_hash |-> file_hash, keywords |-> m.keywords]

\* the fingerprint left out of the bound values
NewRow_no_hash(m, file_path, file_hash) ==
    [id |-> seq + 1, title |-> m.title, authors |-> m.authors,
     abstract |-> m.abstract, publication_date |-> m.publication_date,
     category |-> m.category, file_path |-> file_path,
     file_hash |-> None, keywords |-> m.keywords]

\* the values bound to the INSERT statement; AUTOINCREMENT gives the id
NewRow(m, file_path, file_hash) ==
    [id |-> seq + 1, title |-> m.title, authors |-> m.authors,
     abstract |-> m.abstract, publication_date |-> m.publication_date,
     category |-> m.category, file_path |-> file_path,
     file_hash |-> file_hash, keywords |-> m.keywords]

\* an index write that is not undone when the INSERT is rejected
InsertPaper_index_first(row) ==
    IF ConstraintFailed(papers, row)
    THEN /\ ret' = [kind |-> "raise", exc |-> "IntegrityError"]
         /\ papers_fts' = IF fts5 THEN papers_ai(papers_fts, row) ELSE papers_fts
         /\ UNCHANGED <<papers, seq>>
    ELSE /\ seq < MaxId
         /\ papers' = papers \cup {row}
         /\ papers_fts' = IF fts5 THEN papers_ai(papers_fts, row) ELSE papers_fts
         /\ seq' = seq + 1
         /\ ret' = [kind |-> "id", id |-> row.id]

\* cursor.execute(INSERT ...), lastrowid, commit.  A rejected INSERT is
\* undone as a statement: no row, no trigger effect, no new id
InsertPaper(row) ==
    IF ConstraintFailed(papers, row)
    THEN /\ ret' = [kind |-> "raise", exc |-> "IntegrityError"]
         /\ UNCHANGED <<papers, papers_fts, seq>>
    ELSE /\ seq < MaxId
         /\ papers' = papers \cup {row}
         /\ papers_fts' = IF fts5 THEN papers_ai(papers_fts, row) ELSE papers_fts
         /\ seq' = seq + 1
         /\ ret' = [kind |-> "id", id |-> row.id]

\* duplicates looked up by path, on a table without UNIQUE(file_hash)
add_paper_dedup_by_path(m, file_path, create_sample_if_missing) ==
    /\ call' = [op |-> "add_paper", meta |-> m, file_path |-> file_path,
                create_sample_if_missing |-> create_sample_if_missing]
    /\ conn' = conn
    /\ IF FileNotFound(files, file_path, create_sample_if_missing)
       THEN /\ ret' = [kind |-> "raise", exc |-> "FileNotFoundError"]
            /\ UNCHANGED <<fts5, papers, papers_fts, seq, files>>
       ELSE \E bytes \in SampleContents :
            LET files1 == IF file_path # None /\ files[file_path] = Missing
                          THEN [files EXCEPT ![file_path] = bytes]
                          ELSE files
                file_hash == IF file_path # None THEN sha256(files1[file_path])
                             ELSE None
                row == NewRow(m, file_path, file_hash)
            IN
            /\ files' = files1
            /\ fts5' = fts5
            /\ IF conn = "closed"
               THEN /\ ret' = [kind |-> "raise", exc |-> "ProgrammingError"]
                    /\ UNCHANGED <<papers, papers_fts, seq>>
               ELSE IF file_path # None /\ \E p \in papers : p.file_path = file_path
               THEN /\ ret' = [kind |-> "none"]
                    /\ UNCHANGED <<papers, papers_fts, seq>>
               ELSE /\ seq < MaxId
                    /\ papers' = papers \cup {row}
                    /\ papers_fts' = IF fts5 THEN papers_ai(papers_fts, row)
                                     ELSE papers_fts
                    /\ seq' = seq + 1
                    /\ ret' = [kind |-> "id", id |-> row.id]

add_paper(m, file_path, create_sample_if_missing) ==
    /\ call' = [op |-> "add_paper", meta |-> m, file_path |-> file_path,
                create_sample_if_missing |-> create_sample_if_missing]
    /\ conn' = conn
    /\ IF FileNotFound(files, file_path, create_sample_if_missing)
       THEN /\ ret' = [kind |-> "raise", exc |-> "FileNotFoundError"]
            /\ UNCHANGED <<fts5, papers, papers_fts, seq, files>>
       ELSE \E bytes \in SampleContents :
            LET \* create_sample_pdf(file_path) when the file is missing
                files1 == IF file_path # None /\ files[file_path] = Missing
                          THEN [files EXCEPT ![file_path] = bytes]
                          ELSE files
                file_hash == IF file_path # None THEN sha256(files1[file_path])
                             ELSE None
                row == NewRow(m, file_path, file_hash)
            IN
            /\ files' = files1
            /\ fts5' = fts5
            /\ IF conn = "closed"
               THEN \* the first cursor.execute on a closed connection
                    /\ ret' = [kind |-> "raise", exc |-> "ProgrammingError"]
                    /\ UNCHANGED <<papers, papers_fts, seq>>
               ELSE IF file_path # None /\ HashLookup(papers, file_hash) # {}
               THEN /\ ret' = [kind |-> "none"]
                    /\ UNCHANGED <<papers, papers_fts, seq>>
               ELSE InsertPaper(row)

\* ------------------------------------------------------- clear_test_data
clear_test_data ==
    LET victims == { p \in papers : LikePrefix(p.title, TestTitlePrefix) }
        after == DeleteRows(papers, papers_fts, victims)
    IN
    /\ call' = [op |-> "clear_test_data"]
    /\ IF conn = "closed"
       THEN \* cursor.execute raises before the sample file is looked at
            /\ ret' = [kind |-> "raise", exc |-> "ProgrammingError"]
            /\ UNCHANGED <<papers, papers_fts, files>>
       ELSE /\ papers' = after.papers
            /\ papers_fts' = after.fts
            /\ files' = [files EXCEPT ![SamplePath] = Missing]
            /\ ret' = [kind |-> "ok"]
    /\ UNCHANGED <<fts5, seq, conn>>

\* --------------------------------------------------------- search_papers
\* the WHERE clause of the statement in the except branch of search_papers:
\* title LIKE ? OR abstract LIKE ? OR authors LIKE ? OR keywords LIKE ?
FallbackTextClause(p, query) ==
    \/ LikeContains(p.title, query)
    \/ LikeContains(p.abstract, query)
    \/ LikeContains(p.authors, query)
    \/ LikeContains(p.keywords, query)

\* the join with papers_fts made whether or not a query is given
TextClause_always_join(idx, p, query) ==
    \E f \in idx : f.rowid = p.id /\ (Given(query) => FtsMatch(f, query))

\* the text part of the WHERE clause.  The statement built for a non-empty
\* query is always the join with papers_fts: building the SQL text cannot
\* raise, so the LIKE statement of the except branch is never selected
TextClause(idx, p, query) ==
    Given(query) => \E f \in idx : f.rowid = p.id /\ FtsMatch(f, query)

\* the AND-ed filters appended to the statement
FilterClause(p, category, author, year) ==
    /\ Given(category) => p.category = category
    /\ Given(author) => LikeContains(p.authors, author)
    /\ Given(year) => strftimeY(p.publication_date) = year

\* the columns of the SELECT list, zipped into a dict (upload_date left out)
ResultDict(p) ==
    [id |-> p.id, title |-> p.title, authors |-> p.authors,
     abstract |-> p.abstract, publication_date |-> p.publication_date,
     category |-> p.category, file_path |-> p.file_path,
     keywords |-> p.keywords]

\* fetchall(): the selected rows in rowid order
RECURSIVE FetchAll(_)
FetchAll(rows) ==
    IF rows = {} THEN <<>>
    ELSE LET first == CHOOSE r \in rows : \A s \in rows : r.id <= s.id
         IN <<ResultDict(first)>> \o FetchAll(rows \ {first})

SelectPapers(tbl, idx, query, category, author, year) ==
    { p \in tbl : /\ TextClause(idx, p, query)
                  /\ FilterClause(p, category, author, year) }

Queries == { NULL, W_deep, W_Deep \o SP \o W_Learning, W_nets \o SP \o W_bob }

CategoryArgs == { NULL, Cat_ML }

AuthorArgs == { NULL, W_ann }

YearArgs == { NULL, Year_2023 }

\* a search that first rebuilds the index from the rows of papers
search_papers_rebuilds_index(query, category, author, year) ==
    /\ call' = [op |-> "search_papers", query |-> query, category |-> category,
                author |-> author, year |-> year]
    /\ papers_fts' = IF fts5 /\ conn = "open"
                     THEN { FtsEntry(p) : p \in papers } ELSE papers_fts
    /\ IF conn = "closed"
       THEN ret' = [kind |-> "raise", exc |-> "ProgrammingError"]
       ELSE IF Given(query) /\ ~fts5
       THEN ret' = [kind |-> "raise", exc |-> "OperationalError"]
       ELSE ret' = [kind |-> "rows",
                    rows |-> FetchAll(SelectPapers(papers, papers_fts', query,
                                                   category, author, year))]
    /\ UNCHANGED <<fts5, papers, seq, files, conn>>

search_papers(query, category, author, year) ==
    /\ call' = [op |-> "search_papers", query |-> query, category |-> category,
                author |-> author, year |-> year]
    /\ IF conn = "closed"
       THEN ret' = [kind |-> "raise", exc |-> "ProgrammingError"]
       ELSE IF Given(query) /\ ~fts5
       THEN \* cursor.execute: no such table: papers_fts
            ret' = [kind |-> "raise", exc |-> "OperationalError"]
       ELSE ret' = [kind |-> "rows",
                    rows |-> FetchAll(SelectPapers(papers, papers_fts, query,
                                                   category, author, year))]
    /\ UNCHANGED <<fts5, papers, papers_fts, seq, files, conn>>

\* ---------------------------------------------------- get_all_categories
\* the non-NULL values of column category, in rowid order
RECURSIVE CategoryColumn(_)
CategoryColumn(rows) ==
    IF rows = {} THEN <<>>
    ELSE LET first == CHOOSE r \in rows : \A s \in rows : r.id <= s.id
             rest == CategoryColumn(rows \ {first})
         IN IF first.category = NULL THEN rest
            ELSE <<first.category>> \o rest

\* DISTINCT: a value is kept where it first occurs
Distinct(col) ==
    SelectSeq([i \in DOMAIN col |->
                  IF \E j \in 1..(i - 1) : col[j] = col[i]
                  THEN <<>> ELSE <<col[i]>>],
              LAMBDA x : x # <<>>)

\* SELECT category FROM papers WHERE category IS NOT NULL, without DISTINCT
SelectDistinctCategory_all_rows(tbl) == CategoryColumn(tbl)

\* SELECT DISTINCT category FROM papers WHERE category IS NOT NULL; the
\* list holds row[0] of every fetched row
SelectDistinctCategory(tbl) ==
    LET kept == Distinct(CategoryColumn(tbl))
    IN [i \in DOMAIN kept |-> kept[i][1]]

get_all_categories ==
    /\ call' = [op |-> "get_all_categories"]
    /\ IF conn = "closed"
       THEN ret' = [kind |-> "raise", exc |-> "ProgrammingError"]
       ELSE ret' = [kind |-> "list", list |-> SelectDistinctCategory(papers)]
    /\ UNCHANGED <<fts5, papers, papers_fts, seq, files, conn>>

\* ----------------------------------------------------------------- close
\* a close that fails on a connection that is already closed
close_once ==
    /\ call' = [op |-> "close", conn |-> conn]
    /\ conn' = "closed"
    /\ ret' = IF conn = "closed"
              THEN [kind |-> "raise", exc |-> "ProgrammingError"]
              ELSE [kind |-> "ok"]
    /\ UNCHANGED <<fts5, papers, papers_fts, seq, files>>

\* self.conn stays a truthy Connection object after close, so a second
\* close() calls Connection.close() again, which does nothing.  Every
\* write was committed or rejected before, so nothing is rolled back
close ==
    /\ call' = [op |-> "close", conn |-> conn]
    /\ conn' = "closed"
    /\ ret' = [kind |-> "ok"]
    /\ UNCHANGED <<fts5, papers, papers_fts, seq, files>>

\* -------------------------------------------- __init__ on existing storage
\* DROP TABLE followed by CREATE TABLE
CreateIfNotExists_recreate(exists, rows) == {}

\* CREATE [VIRTUAL] TABLE IF NOT EXISTS: an existing table keeps its rows
CreateIfNotExists(exists, rows) == IF exists THEN rows ELSE {}

\* a new ResearchPaperRepository on the storage of the former one, which is
\* gone (as after a restart of the program), on the same engine: every
\* CREATE ... IF NOT EXISTS finds its object, sqlite_sequence is untouched
initialize_database ==
    /\ call' = [op |-> "__init__"]
    /\ conn' = "open"
    /\ papers' = CreateIfNotExists(TRUE, papers)
    /\ papers_fts' = IF fts5 THEN CreateIfNotExists(TRUE, papers_fts)
                     ELSE papers_fts
    /\ ret' = [kind |-> "ok"]
    /\ UNCHANGED <<fts5, seq, files>>

\* ---------------------------------------------------------- specification
\* metadata used where only the title prefix matters
StoreMetas == { m \in Metas : m.title \in {Title_DeepLearningForX, Title_NetsForBob} }

\* add_paper with and without files, and clear_test_data
Next ==
    \/ \E m \in StoreMetas, fp \in Paths \cup {None}, c \in BOOLEAN :
          add_paper(m, fp, c)
    \/ clear_test_data

Spec == Init /\ [][Next]_vars

\* the searches, over every metadata of Metas
SearchNext ==
    \/ \E m \in Metas, fp \in {None, "a.pdf"} : add_paper(m, fp, FALSE)
    \/ clear_test_data
    \/ \E q \in Queries, c \in CategoryArgs, a \in AuthorArgs, y \in YearArgs :
          search_papers(q, c, a, y)
    \/ get_all_categories

SearchSpec == Init /\ [][SearchNext]_vars

\* the life cycle: close and a new repository on the same storage
LifeNext ==
    \/ \E m \in StoreMetas, fp \in {None, "a.pdf"}, c \in BOOLEAN :
          add_paper(m, fp, c)
    \/ clear_test_data
    \/ get_all_categories
    \/ close
    \/ initialize_database

LifeSpec == Init /\ [][LifeNext]_vars

\* ----------------------------------------------------------------- claims
\* C1: no two stored papers have the same non-null file_hash.
C1_UniqueFileHash ==
    \A p \in papers : \A q \in papers :
        (p.id # q.id /\ p.file_hash # None) => p.file_hash # q.file_hash

\* two papers with files are stored and an add of already stored content
\* has just been turned away
C1_Witness ==
    /\ Cardinality({ p \in papers : p.file_hash # None }) >= 2
    /\ call.op = "add_paper"
    /\ ret.kind = "none"

\* C2: an add_paper whose file has the bytes of a stored paper's file (the
\* same fingerprint), under any path and metadata, returns None and leaves
\* the rows of papers and the entries of papers_fts as they were.
C2_DedupIdempotent ==
    [][ ( /\ call'.op = "add_paper"
          /\ call'.file_path # None
          /\ files'[call'.file_path] # Missing
          /\ \E p \in papers : p.file_hash = sha256(files'[call'.file_path]) )
        => ( /\ ret'.kind = "none"
             /\ papers' = papers
             /\ papers_fts' = papers_fts ) ]_vars

\* a duplicate was reported for content stored under another path
C2_Witness ==
    /\ call.op = "add_paper"
    /\ ret.kind = "none"
    /\ \E p \in papers : /\ p.file_hash = sha256(files[call.file_path])
                         /\ p.file_path # call.file_path

\* C3: with the index available, papers_fts holds exactly the projections
\* of the rows of papers: one entry per stored id, none for an id that is
\* not stored, each with the row's title, authors, abstract and keywords.
C3_IndexConsistent ==
    fts5 => papers_fts = { FtsEntry(p) : p \in papers }

\* a query of one word
OneTerm(q) == Given(q) /\ Tokens(q) = { LowerText(q) }

\* C4: with or without the index, a search for one term that is a word of
\* a stored paper's title returns that paper.
C4_TitleTermFound ==
    ( /\ call.op = "search_papers"
      /\ OneTerm(call.query)
      /\ ~Given(call.category) /\ ~Given(call.author) /\ ~Given(call.year) )
    => \A p \in papers :
          LowerText(call.query) \in Tokens(p.title)
          => (ret.kind = "rows" /\ ResultDict(p) \in Range(ret.rows))

\* C5: without the index, a search with a non-empty query is answered by
\* the substring statement (OR over title, abstract, authors, keywords).
C5_FallbackAnswers ==
    (~fts5 /\ call.op = "search_papers" /\ Given(call.query))
    => ret = [kind |-> "rows",
              rows |-> FetchAll({ p \in papers :
                          /\ FallbackTextClause(p, call.query)
                          /\ FilterClause(p, call.category, call.author,
                                          call.year) })]

\* C6: an add_paper that raises leaves papers and papers_fts as they were.
C6_FailedAddLeavesNothing ==
    [][ (call'.op = "add_paper" /\ ret'.kind = "raise")
        => (papers' = papers /\ papers_fts' = papers_fts) ]_vars

\* the INSERT was rejected for a path that a stored, indexed paper has
C6_Witness ==
    /\ call.op = "add_paper"
    /\ ret = [kind |-> "raise", exc |-> "IntegrityError"]
    /\ fts5
    /\ \E p \in papers : p.file_path = call.file_path

\* C7: add_paper with a path that does not exist and without
\* create_sample_if_missing raises FileNotFoundError, creates no file and
\* leaves the store alone.
C7_MissingFileRaises ==
    [][ ( /\ call'.op = "add_paper"
          /\ call'.file_path # None
          /\ files[call'.file_path] = Missing
          /\ ~call'.create_sample_if_missing )
        => ( /\ ret' = [kind |-> "raise", exc |-> "FileNotFoundError"]
             /\ files' = files
             /\ UNCHANGED <<papers, papers_fts, seq>> ) ]_vars

\* the error was raised with papers already stored
C7_Witness ==
    /\ call.op = "add_paper"
    /\ ret = [kind |-> "raise", exc |-> "FileNotFoundError"]
    /\ files[call.file_path] = Missing
    /\ papers # {}

\* the first four characters of a date, when they are digits
Year4(d) ==
    IF d # NULL /\ Len(d) >= 4 /\ \A i \in 1..4 : IsDigit(d[i])
    THEN SubSeq(d, 1, 4)
    ELSE NULL

\* the text match of the strategy chosen at initialization
StrategyMatch(p, q) ==
    IF fts5 THEN FtsMatch(FtsEntry(p), q) ELSE FallbackTextClause(p, q)

\* C8: search_papers returns exactly the stored papers that match the query
\* (when given), have the category (when given), have the author inside
\* authors (when given) and have the 4-digit year of publication_date equal
\* to year (when given).
C8_FilterComposition ==
    call.op = "search_papers"
    => /\ ret.kind = "rows"
       /\ Range(ret.rows) =
            { ResultDict(p) : p \in { r \in papers :
                /\ Given(call.query) => StrategyMatch(r, call.query)
                /\ Given(call.category) => r.category = call.category
                /\ Given(call.author) => LikeContains(r.authors, call.author)
                /\ Given(call.year) => Year4(r.publication_date) = call.year } }

\* C9: search_papers() without query and filters returns every stored
\* paper exactly once and nothing else.
C9_EmptyQueryReturnsAll ==
    ( /\ call.op = "search_papers"
      /\ ~Given(call.query) /\ ~Given(call.category)
      /\ ~Given(call.author) /\ ~Given(call.year) )
    => /\ ret.kind = "rows"
       /\ Len(ret.rows) = Cardinality(papers)
       /\ Range(ret.rows) = { ResultDict(p) : p \in papers }

\* all of two stored papers were returned by search_papers()
C9_Witness ==
    /\ call.op = "search_papers"
    /\ ~Given(call.query) /\ ~Given(call.category)
    /\ ~Given(call.author) /\ ~Given(call.year)
    /\ Cardinality(papers) >= 2
    /\ ret.kind = "rows"
    /\ Len(ret.rows) = Cardinality(papers)

\* C10: clear_test_data deletes every paper whose title starts with the
\* prefix together with its index entry, and leaves every other paper and
\* index entry as it was.
C10_ClearDeletesRowsAndEntries ==
    [][ call'.op = "clear_test_data"
        => LET gone == { p \in papers : LikePrefix(p.title, TestTitlePrefix) }
           IN /\ papers' = papers \ gone
              /\ papers_fts' = { f \in papers_fts :
                                   \A p \in gone : p.id # f.rowid } ]_vars

\* C11: no two stored papers have the same non-null file_path.
C11_UniqueFilePath ==
    \A p \in papers : \A q \in papers :
        (p.id # q.id /\ p.file_path # None) => p.file_path # q.file_path

\* an INSERT with the path of a stored paper and new bytes was rejected
C11_Witness ==
    /\ call.op = "add_paper"
    /\ ret = [kind |-> "raise", exc |-> "IntegrityError"]
    /\ \E p \in papers : /\ p.file_path = call.file_path
                         /\ p.file_hash # sha256(files[call.file_path])

\* add_paper is called with the path of a stored paper while the file now
\* has bytes that no stored fingerprint belongs to
SamePathNewBytes ==
    /\ call'.op = "add_paper"
    /\ call'.file_path # None
    /\ files'[call'.file_path] # Missing
    /\ \E p \in papers : p.file_path = call'.file_path
    /\ \A p \in papers : p.file_hash # sha256(files'[call'.file_path])

\* C12 as stated: such an add is neither reported as a duplicate nor
\* rejected because of the path.
C12_SamePathNoCollision ==
    [][ SamePathNewBytes => (ret'.kind # "none" /\ ret'.kind # "raise") ]_vars

\* C12 as amended: such an add is not reported as a duplicate; the INSERT
\* is rejected by UNIQUE(file_path) with IntegrityError and the store is
\* left as it was.
C12_SamePathRejected ==
    [][ SamePathNewBytes
        => ( /\ ret' = [kind |-> "raise", exc |-> "IntegrityError"]
             /\ papers' = papers
             /\ papers_fts' = papers_fts ) ]_vars

\* the regenerated sample file was added again under its stored path
C12_Witness ==
    /\ call.op = "add_paper"
    /\ call.file_path = SamplePath
    /\ call.create_sample_if_missing
    /\ ret = [kind |-> "raise", exc |-> "IntegrityError"]
    /\ \E p \in papers : p.file_path = SamplePath
    /\ \A p \in papers : p.file_hash # sha256(files[SamplePath])

\* C13: a successful add_paper returns an id greater than every id handed
\* out before (seq, which clear_test_data does not lower), the ids handed
\* out never go down, and every row of the next state is either a row of
\* this state, unchanged, or carries an id never handed out before.
C13_IdsGrow ==
    [][ /\ seq' >= seq
        /\ \A q \in papers' : q \in papers \/ q.id > seq
        /\ (call'.op = "add_paper" /\ ret'.kind = "id")
           => ( /\ ret'.id > seq
                /\ seq' = ret'.id
                /\ \A p \in papers : p.id < ret'.id
                /\ \E q \in papers' : q.id = ret'.id ) ]_vars

\* id 2 was given out after the paper of id 1 had been cleared
C13_Witness ==
    /\ call.op = "add_paper"
    /\ ret = [kind |-> "id", id |-> 2]
    /\ \A p \in papers : p.id = 2

\* C14: a paper without file_path has no file_hash, a paper with a
\* file_path has one, and the row of a successful add_paper holds the
\* fingerprint of the bytes its file had at that call.
C14_HashFollowsPath ==
    /\ \A p \in papers : (p.file_path = None) <=> (p.file_hash = None)
    /\ (call.op = "add_paper" /\ ret.kind = "id")
       => \A p \in papers :
             p.id = ret.id
             => /\ p.file_path = call.file_path
                /\ p.file_hash = IF call.file_path = None THEN None
                                 ELSE sha256(files[call.file_path])

\* a paper with a file and a paper without one are stored
C14_Witness ==
    /\ call.op = "add_paper"
    /\ ret.kind = "id"
    /\ call.file_path # None
    /\ \E p \in papers : p.file_path = None
    /\ \E p \in papers : p.file_hash = sha256(files[call.file_path])

\* C15: a new repository on initialized storage is set up without error
\* and leaves the rows, the index entries, the triggers (present exactly
\* when fts5 is) and the id sequence as they were.
C15_InitIdempotent ==
    [][ call'.op = "__init__"
        => ( /\ ret' = [kind |-> "ok"]
             /\ papers' = papers
             /\ papers_fts' = papers_fts
             /\ fts5' = fts5
             /\ seq' = seq ) ]_vars

\* a repository was opened on storage that holds papers and index entries
C15_Witness ==
    /\ call.op = "__init__"
    /\ papers # {}
    /\ papers_fts # {}
    /\ conn = "open"

\* C16: close() on a closed repository raises nothing and leaves it closed,
\* with the storage as it was.
C16_CloseIdempotent ==
    [][ (call'.op = "close" /\ conn = "closed")
        => ( /\ ret' = [kind |-> "ok"]
             /\ conn' = "closed"
             /\ UNCHANGED <<fts5, papers, papers_fts, seq, files>> ) ]_vars

\* close() has returned on a repository that was closed already
C16_Witness ==
    /\ call = [op |-> "close", conn |-> "closed"]
    /\ ret = [kind |-> "ok"]
    /\ conn = "closed"
    /\ papers # {}

\* C17: get_all_categories returns each non-null category of a stored
\* paper once and nothing else.
C17_CategoriesExact ==
    (call.op = "get_all_categories" /\ conn = "open")
    => /\ ret.kind = "list"
       /\ Range(ret.list) = { p.category : p \in papers } \ {NULL}
       /\ Len(ret.list) = Cardinality(Range(ret.list))

\* the categories were listed with two papers of one category stored
C17_Witness ==
    /\ call.op = "get_all_categories"
    /\ ret.kind = "list"
    /\ Len(ret.list) = 1
    /\ \E p \in papers : \E q \in papers :
          p.id # q.id /\ p.category = q.category /\ p.category # NULL

\* C18: add_paper without file_path makes no duplicate check: it inserts a
\* row with no file_path and no file_hash under a new id and returns it,
\* whatever is stored already.
C18_NoPathAlwaysInserts ==
    [][ (call'.op = "add_paper" /\ call'.file_path = None)
        => ( /\ ret'.kind = "id"
             /\ \A p \in papers : p.id # ret'.id
             /\ \E q \in papers' :
                   /\ q.id = ret'.id
                   /\ q.file_path = None /\ q.file_hash = None
                   /\ q.title = call'.meta.title
                   /\ papers' = papers \cup {q} ) ]_vars

\* two papers without file and with the same metadata are stored
C18_Witness ==
    /\ call.op = "add_paper"
    /\ call.file_path = None
    /\ ret.kind = "id"
    /\ \E p \in papers : \E q \in papers :
          /\ p.id # q.id
          /\ p.file_path = None /\ q.file_path = None
          /\ [p EXCEPT !.id = 0] = [q EXCEPT !.id = 0]

\* C19: search_papers and get_all_categories leave the rows, the index
\* entries, the search mode, the id sequence and the files as they were.
C19_ReadOnly ==
    [][ call'.op \in {"search_papers", "get_all_categories"}
        => UNCHANGED <<fts5, papers, papers_fts, seq, files, conn>> ]_vars

\* a search with a query was answered while the index held the entry of a
\* cleared paper
C19_Witness ==
    /\ call.op = "search_papers"
    /\ Given(call.query)
    /\ ret.kind = "rows"
    /\ papers # {}
    /\ \E f \in papers_fts : \A p \in papers : p.id # f.rowid

====
